---- MODULE Spec2Model ----
(***************************************************************************)
(* A model of treap.c: a treap (binary search tree on treeKey, max-heap on *)
(* heapKey) with parent back-pointers.  Node memory is a growing array of  *)
(* treap_node_t records; a node pointer is an index into it, NULL is 0.    *)
(* Every public operation is one atomic action computed the way the C code *)
(* computes it, pointer write by pointer write.                             *)
(***************************************************************************)
EXTENDS Integers, Sequences, FiniteSets, TLC

\* ---- bounds of the model ----
MaxNodes == 3      \* number of malloc calls the model allows
MaxKey == 2        \* keys are drawn from 0..MaxKey
MaxPrio == 2       \* rand() results are drawn from 0..MaxPrio

NULL == 0          \* the null pointer
HANG == 0 - 1      \* result of a loop of the code that never exits

Key == 0..MaxKey
Prio == 0..MaxPrio

VARIABLES
    root,       \* treap_t.root
    L, R, P,    \* treap_node_t.L / .R / .P, one entry per allocated node
    treeKey,    \* treap_node_t.treeKey
    heapKey,    \* treap_node_t.heapKey
    hung,       \* TRUE once an operation entered a loop it never leaves
    last        \* the last completed operation: its name, arguments and result

vars == <<root, L, R, P, treeKey, heapKey, hung, last>>

\* The whole memory as one value, so that the operations are functions on it.
Mem == [root |-> root, L |-> L, R |-> R, P |-> P,
        treeKey |-> treeKey, heapKey |-> heapKey]

\* ---------------------------------------------------------------------
\* treapRotate (treap.c 46-71), one pointer assignment after the other.
\* ---------------------------------------------------------------------
\* the rotation without the inner subtree's parent update (lines 49, 54)
RotateShapeNoInnerParent(t, r, p) ==
    IF t.treeKey[p] < t.treeKey[r]
    THEN LET t2 == [t EXCEPT !.L[r] = t.R[p]] IN [t2 EXCEPT !.R[p] = r]
    ELSE LET t2 == [t EXCEPT !.R[r] = t.L[p]] IN [t2 EXCEPT !.L[p] = r]

RotateShape(t, r, p) ==
    IF t.treeKey[p] < t.treeKey[r]
    THEN \* Right-rotation
         LET t1 == IF t.R[p] # NULL THEN [t EXCEPT !.P[t.R[p]] = r] ELSE t
             t2 == [t1 EXCEPT !.L[r] = t1.R[p]]
         IN  [t2 EXCEPT !.R[p] = r]
    ELSE \* Left-rotation
         LET t1 == IF t.L[p] # NULL THEN [t EXCEPT !.P[t.L[p]] = r] ELSE t
             t2 == [t1 EXCEPT !.R[r] = t1.L[p]]
         IN  [t2 EXCEPT !.L[p] = r]

\* the finish with the root slot written whether or not r had a parent
RotateFinishAlwaysRoot(t, r, p) ==
    LET t1 == [t EXCEPT !.P[p] = t.P[r], !.root = p]
        t2 == IF t1.P[r] = NULL
              THEN t1
              ELSE IF t1.treeKey[r] < t1.treeKey[t1.P[r]]
                   THEN [t1 EXCEPT !.L[t1.P[r]] = p]
                   ELSE [t1 EXCEPT !.R[t1.P[r]] = p]
    IN  [t2 EXCEPT !.P[r] = p]

RotateFinish(t, r, p) ==
    LET t1 == [t EXCEPT !.P[p] = t.P[r]]
        t2 == IF t1.P[r] = NULL
              THEN [t1 EXCEPT !.root = p]
              ELSE IF t1.treeKey[r] < t1.treeKey[t1.P[r]]
                   THEN [t1 EXCEPT !.L[t1.P[r]] = p]
                   ELSE [t1 EXCEPT !.R[t1.P[r]] = p]
    IN  [t2 EXCEPT !.P[r] = p]

\* the finish without line 59: the pivot keeps its old parent pointer
RotateKeepsPivotParent(t, r, p) ==
    LET t0 == RotateShape(t, r, p)
        t2 == IF t0.P[r] = NULL
              THEN [t0 EXCEPT !.root = p]
              ELSE IF t0.treeKey[r] < t0.treeKey[t0.P[r]]
                   THEN [t0 EXCEPT !.L[t0.P[r]] = p]
                   ELSE [t0 EXCEPT !.R[t0.P[r]] = p]
    IN  [t2 EXCEPT !.P[r] = p]

treapRotate(t, r, p) == RotateFinish(RotateShape(t, r, p), r, p)

\* ---------------------------------------------------------------------
\* treapFind (treap.c 77-89).  The walk reads only; if it visits more
\* nodes than exist it is revisiting one and never ends.
\* ---------------------------------------------------------------------
RECURSIVE FindWalk(_, _, _, _)
FindWalk(t, cur, key, fuel) ==
    IF cur = NULL THEN NULL
    ELSE IF fuel = 0 THEN HANG
    ELSE IF key < t.treeKey[cur] THEN FindWalk(t, t.L[cur], key, fuel - 1)
    ELSE IF key > t.treeKey[cur] THEN FindWalk(t, t.R[cur], key, fuel - 1)
    ELSE cur

treapFind(t, key) == FindWalk(t, t.root, key, Len(t.L))

Found(t, key) == treapFind(t, key) \notin {NULL, HANG}

\* ---------------------------------------------------------------------
\* treapUsurpingFind (treap.c 95-107)
\* ---------------------------------------------------------------------
\* the exchange written without the temporary
SwapNoTemp(t, cur) ==
    LET t1 == [t EXCEPT !.heapKey[cur] = t.heapKey[t.P[cur]]]
    IN  [t1 EXCEPT !.heapKey[t1.P[cur]] = t1.heapKey[cur]]

SwapHeapKeys(t, cur) ==
    LET tempKey == t.heapKey[cur]
        t1 == [t EXCEPT !.heapKey[cur] = t.heapKey[t.P[cur]]]
    IN  [t1 EXCEPT !.heapKey[t1.P[cur]] = tempKey]

UsurpsIfHigher(t, cur) ==
    cur # NULL /\ t.P[cur] # NULL /\ t.heapKey[cur] >= t.heapKey[t.P[cur]]

Usurps(t, cur) == cur # NULL /\ t.P[cur] # NULL

treapUsurpingFind(t, key) ==
    LET cur == treapFind(t, key) IN
    IF cur = HANG THEN [t |-> t, ret |-> HANG]
    ELSE IF Usurps(t, cur)
         THEN LET t1 == SwapHeapKeys(t, cur)
              IN  [t |-> treapRotate(t1, t1.P[cur], cur), ret |-> cur]
         ELSE [t |-> t, ret |-> cur]

\* ---------------------------------------------------------------------
\* treapAppend (treap.c 115-154)
\* ---------------------------------------------------------------------
\* line 124: the descent; stops at the node whose chosen child is NULL
AppendNext(t, cur, key) == IF key < t.treeKey[cur] THEN t.L[cur] ELSE t.R[cur]

RECURSIVE AppendWalk(_, _, _, _)
AppendWalk(t, cur, key, fuel) ==
    IF AppendNext(t, cur, key) = NULL THEN cur
    ELSE IF fuel = 0 THEN HANG
    ELSE AppendWalk(t, AppendNext(t, cur, key), key, fuel - 1)

\* lines 138-144: malloc, the five field writes, and *inPointer = newNode
LinkNew(t, cur, key, hk) ==
    LET n == Len(t.L) + 1
        t1 == [t EXCEPT !.P = Append(t.P, cur), !.L = Append(t.L, NULL),
                        !.R = Append(t.R, NULL),
                        !.treeKey = Append(t.treeKey, key),
                        !.heapKey = Append(t.heapKey, hk)]
    IN  IF cur = NULL THEN [t1 EXCEPT !.root = n]
        ELSE IF key < t.treeKey[cur] THEN [t1 EXCEPT !.L[cur] = n]
        ELSE [t1 EXCEPT !.R[cur] = n]

\* line 148: the condition of the bubble-up loop
ClimbsMinHeap(t, n) == t.P[n] # NULL /\ t.heapKey[n] < t.heapKey[t.P[n]]

\* the loop condition with >= : ties rotate too
ClimbsOnTie(t, n) == t.P[n] # NULL /\ t.heapKey[n] >= t.heapKey[t.P[n]]

Climbs(t, n) == t.P[n] # NULL /\ t.heapKey[n] > t.heapKey[t.P[n]]

\* lines 148-150 with an if in place of the while: at most one rotation
BubbleUpOnce(t, n, seen) ==
    IF ~Climbs(t, n) THEN [t |-> t, ret |-> n]
    ELSE [t |-> treapRotate(t, t.P[n], n), ret |-> n]

\* lines 148-150.  The loop is deterministic: it never exits exactly when
\* it comes back to a memory it has already been in.
RECURSIVE BubbleUp(_, _, _)
BubbleUp(t, n, seen) ==
    IF ~Climbs(t, n) THEN [t |-> t, ret |-> n]
    ELSE IF t \in seen THEN [t |-> t, ret |-> HANG]
    ELSE BubbleUp(treapRotate(t, t.P[n], n), n, seen \cup {t})

treapAppend(t, key, hk) ==
    LET cur == IF t.root = NULL THEN NULL
               ELSE AppendWalk(t, t.root, key, Len(t.L))
    IN  IF cur = HANG THEN [t |-> t, ret |-> HANG]
        ELSE IF cur # NULL /\ key = t.treeKey[cur] THEN [t |-> t, ret |-> cur]
        ELSE BubbleUp(LinkNew(t, cur, key, hk), Len(t.L) + 1, {})

\* ---------------------------------------------------------------------
\* treapDecouple (treap.c 160-195)
\* ---------------------------------------------------------------------
\* line 163: which child the node is rotated with
\* the comparison of line 163 turned round: the lower child goes up
DownChildLower(t, node) ==
    IF t.heapKey[t.L[node]] < t.heapKey[t.R[node]] THEN t.L[node] ELSE t.R[node]

DownChild(t, node) ==
    IF t.heapKey[t.L[node]] > t.heapKey[t.R[node]] THEN t.L[node] ELSE t.R[node]

\* lines 162-170
RECURSIVE RotateDown(_, _, _)
RotateDown(t, node, seen) ==
    IF t.L[node] = NULL \/ t.R[node] = NULL THEN [t |-> t, ret |-> NULL]
    ELSE IF t \in seen THEN [t |-> t, ret |-> HANG]
    ELSE RotateDown(treapRotate(t, node, DownChild(t, node)), node, seen \cup {t})

\* lines 173-180: inPointer, the slot that is rewritten
InPointer(t, node) ==
    IF t.P[node] = NULL THEN <<"root", NULL>>
    ELSE IF t.treeKey[node] < t.treeKey[t.P[node]] THEN <<"L", t.P[node]>>
    ELSE <<"R", t.P[node]>>

Store(t, slot, v) ==
    IF slot[1] = "root" THEN [t EXCEPT !.root = v]
    ELSE IF slot[1] = "L" THEN [t EXCEPT !.L[slot[2]] = v]
    ELSE [t EXCEPT !.R[slot[2]] = v]

\* the splice without the child's parent update (lines 185 and 189 left out)
SpliceNoParent(t, node) ==
    LET slot == InPointer(t, node) IN
    IF t.R[node] # NULL THEN Store(t, slot, t.R[node])
    ELSE IF t.L[node] # NULL THEN Store(t, slot, t.L[node])
    ELSE Store(t, slot, NULL)

\* lines 182-193
Splice(t, node) ==
    LET slot == InPointer(t, node) IN
    IF t.R[node] # NULL
    THEN LET t1 == Store(t, slot, t.R[node])
         IN  [t1 EXCEPT !.P[t1.R[node]] = t1.P[node]]
    ELSE IF t.L[node] # NULL
    THEN LET t1 == Store(t, slot, t.L[node])
         IN  [t1 EXCEPT !.P[t1.L[node]] = t1.P[node]]
    ELSE Store(t, slot, NULL)

treapDecouple(t, node) ==
    LET d == RotateDown(t, node, {}) IN
    IF d.ret = HANG THEN d ELSE [t |-> Splice(d.t, node), ret |-> NULL]

\* ---------------------------------------------------------------------
\* Which nodes are in the treap: those the root reaches over L and R.
\* ---------------------------------------------------------------------
Kids(t, S) == {t.L[n] : n \in S} \cup {t.R[n] : n \in S}

RECURSIVE Closure(_, _)
Closure(t, S) ==
    LET S2 == S \cup (Kids(t, S) \ {NULL}) IN
    IF S2 = S THEN S ELSE Closure(t, S2)

Under(t, n) == IF n = NULL THEN {} ELSE Closure(t, {n})
Members(t) == Under(t, t.root)

\* ---------------------------------------------------------------------
\* The program: an empty treap (bob.root = NULL, treap.c 250-251), then
\* any sequence of the four public operations.
\* ---------------------------------------------------------------------
NoOp == [op |-> "none", key |-> 0, node |-> NULL, ret |-> NULL, up |-> NULL]

Init ==
    /\ root = NULL
    /\ L = <<>> /\ R = <<>> /\ P = <<>>
    /\ treeKey = <<>> /\ heapKey = <<>>
    /\ hung = FALSE
    /\ last = NoOp

\* The memory becomes r.t and the call is recorded (up: the parent the
\* returned node had when the call began, for usurpingFind); a call that
\* never returns leaves the program stuck inside it.
Finish(r, op, key, node, up) ==
    IF r.ret = HANG
    THEN /\ hung' = TRUE
         /\ UNCHANGED <<root, L, R, P, treeKey, heapKey, last>>
    ELSE /\ root' = r.t.root
         /\ L' = r.t.L /\ R' = r.t.R /\ P' = r.t.P
         /\ treeKey' = r.t.treeKey /\ heapKey' = r.t.heapKey
         /\ last' = [op |-> op, key |-> key, node |-> node, ret |-> r.ret,
                     up |-> up]
         /\ UNCHANGED hung

Insert(k, hk) ==
    /\ ~hung
    /\ LET r == treapAppend(Mem, k, hk) IN
         /\ r.ret = HANG \/ Len(r.t.L) <= MaxNodes
         /\ Finish(r, "insert", k, NULL, NULL)

\* find with usurpingFind's promotion as a side effect
FindPromotes(k) ==
    /\ ~hung
    /\ Finish(treapUsurpingFind(Mem, k), "find", k, NULL, NULL)

Find(k) ==
    /\ ~hung
    /\ Finish([t |-> Mem, ret |-> treapFind(Mem, k)], "find", k, NULL, NULL)

UsurpingFind(k) ==
    /\ ~hung
    /\ LET r == treapUsurpingFind(Mem, k) IN
         Finish(r, "usurpingFind", k, NULL,
                IF r.ret \in {NULL, HANG} THEN NULL ELSE P[r.ret])

Decouple(n) ==
    /\ ~hung
    /\ n \in Members(Mem)
    /\ Finish(treapDecouple(Mem, n), "decouple", 0, n, NULL)

Next ==
    \/ \E k \in Key, hk \in Prio : Insert(k, hk)
    \/ \E k \in Key : Find(k)
    \/ \E k \in Key : UsurpingFind(k)
    \/ \E n \in 1..MaxNodes : Decouple(n)

Spec == Init /\ [][Next]_vars

\* ---------------------------------------------------------------------
\* The scenario program: the keys 5, 3, 8, 1, 4 appended in this order to
\* an empty treap, rand() returning any of the five priorities each time.
\* ---------------------------------------------------------------------
ScenKeys == <<5, 3, 8, 1, 4>>
ScenPrio == {5, 10, 15, 20, 30}

ScenInsert(hk) ==
    /\ ~hung
    /\ Len(L) < Len(ScenKeys)
    /\ Finish(treapAppend(Mem, ScenKeys[Len(L) + 1], hk), "insert",
              ScenKeys[Len(L) + 1], NULL, NULL)

ScenNext == \E hk \in ScenPrio : ScenInsert(hk)

SpecScenario == Init /\ [][ScenNext]_vars

\* ---------------------------------------------------------------------
\* The program of the test drivers (treap.c 252-254, 267-271, 292-300):
\* first the driver appends keys the treap does not hold, then it decouples
\* nodes it has found.  It runs on more nodes than Spec does.
\* ---------------------------------------------------------------------
MaxNodesD == 4     \* number of malloc calls this program makes at most
MaxKeyD == 3       \* its keys are drawn from 0..MaxKeyD
MaxPrioD == 3      \* its rand() results are drawn from 0..MaxPrioD

KeyD == 0..MaxKeyD
PrioD == 0..MaxPrioD

Holds(t, k) == \E n \in Members(t) : t.treeKey[n] = k

InsertAbsent(k, hk) ==
    /\ ~hung
    /\ ~Holds(Mem, k)
    /\ Members(Mem) = 1..Len(L)      \* the second loop has not begun
    /\ Len(L) < MaxNodesD
    /\ Finish(treapAppend(Mem, k, hk), "insert", k, NULL, NULL)

DecoupleFound(k) ==
    /\ ~hung
    /\ Found(Mem, k)
    /\ Finish(treapDecouple(Mem, treapFind(Mem, k)), "decouple", k,
              treapFind(Mem, k), NULL)

NextDistinct ==
    \/ \E k \in KeyD, hk \in PrioD : InsertAbsent(k, hk)
    \/ \E k \in KeyD : DecoupleFound(k)

SpecDistinct == Init /\ [][NextDistinct]_vars

\* ---------------------------------------------------------------------
\* What the test drivers and the invariants look at.
\* ---------------------------------------------------------------------
\* testInOrder (treap.c 224-229) asks it of each child; the invariant asks
\* it of the whole subtree on each side.
SearchOrder(t) ==
    \A n \in Members(t) :
        /\ \A m \in Under(t, t.L[n]) : t.treeKey[m] < t.treeKey[n]
        /\ \A m \in Under(t, t.R[n]) : t.treeKey[m] > t.treeKey[n]

\* "Max heap, larger values are closer to root" (treap.c 24-25)
HeapOrder(t) ==
    \A n \in Members(t) :
        /\ t.L[n] # NULL => t.heapKey[n] >= t.heapKey[t.L[n]]
        /\ t.R[n] # NULL => t.heapKey[n] >= t.heapKey[t.R[n]]

\* properParentTest (treap.c 231-237) counts the members without parent;
\* the invariant also wants every link answered by the link back.
ParentNulls(t) == Cardinality({n \in Members(t) : t.P[n] = NULL})

BackLinks(t) ==
    /\ \A n \in Members(t) :
        /\ t.L[n] # NULL => t.P[t.L[n]] = n
        /\ t.R[n] # NULL => t.P[t.R[n]] = n
        /\ n # t.root =>
             /\ t.P[n] \in Members(t)
             /\ (t.L[t.P[n]] = n) # (t.R[t.P[n]] = n)
    /\ ParentNulls(t) = (IF t.root = NULL THEN 0 ELSE 1)
    /\ t.root # NULL => t.P[t.root] = NULL

Unique(t) ==
    \A n, m \in Members(t) : t.treeKey[n] = t.treeKey[m] => n = m

\* The number of parent links between a node and the root.
RECURSIVE DepthWalk(_, _, _, _)
DepthWalk(t, n, d, fuel) ==
    IF t.P[n] = NULL THEN d
    ELSE IF fuel = 0 THEN HANG
    ELSE DepthWalk(t, t.P[n], d + 1, fuel - 1)

Depth(t, n) == DepthWalk(t, n, 0, Len(t.L))

\* The keys in printTreapKernel's order (treap.c 206-216): left, node, right.
RECURSIVE InOrder(_, _, _)
InOrder(t, n, fuel) ==
    IF n = NULL \/ fuel = 0 THEN <<>>
    ELSE InOrder(t, t.L[n], fuel - 1) \o <<t.treeKey[n]>>
         \o InOrder(t, t.R[n], fuel - 1)


\* =====================================================================
\* Claims
\* =====================================================================

\* C1: after every completed operation every member's left subtree holds
\* only strictly smaller keys and its right subtree only strictly greater.
C1_SearchOrder == SearchOrder(Mem)

\* C2: after every completed operation every member's priority is >= the
\* priority of its left child and of its right child.
C2_HeapOrder == HeapOrder(Mem)

\* C3: for every key k held by a member n, insert(k) returns n, allocates
\* nothing, and leaves the root and every link and priority as they were.
C3_DuplicateInsert ==
    \A k \in Key, hk \in Prio : \A n \in Members(Mem) :
        treeKey[n] = k => treapAppend(Mem, k, hk) = [t |-> Mem, ret |-> n]

\* C4: after every completed operation every child link is answered by the
\* child's parent link, every member but the root hangs in exactly one slot
\* of its parent, and the root is the one member without a parent.
C4_BackLinks == BackLinks(Mem)

\* C5: no two members of the treap hold the same treeKey.
C5_Unique == Unique(Mem)

\* C6: for every key k, find(k) right after insert(k) returns the handle
\* insert returned, and after decouple of that handle find(k) finds nothing.
C6_RoundTrip ==
    \A k \in Key, hk \in Prio :
        LET a == treapAppend(Mem, k, hk) IN
        a.ret # HANG =>
            /\ treapFind(a.t, k) = a.ret
            /\ LET d == treapDecouple(a.t, a.ret) IN
                 d.ret # HANG /\ treapFind(d.t, k) = NULL

\* C7: find(k) returns a member holding k exactly when some member holds
\* k, and NULL otherwise.
C7_FindIsMembership ==
    \A k \in Key :
        LET f == treapFind(Mem, k) IN
        IF \E n \in Members(Mem) : treeKey[n] = k
        THEN f \in Members(Mem) /\ treeKey[f] = k
        ELSE f = NULL

\* C8: when usurpingFind(k) finds a node that is not the root, it returns
\* that node, the node's former parent is its child afterwards, and the
\* node is exactly one level closer to the root.
C8_Promotion ==
    \A k \in Key :
        LET cur == treapFind(Mem, k) IN
        (Found(Mem, k) /\ P[cur] # NULL) =>
            LET u == treapUsurpingFind(Mem, k) IN
            /\ u.ret = cur
            /\ P[cur] \in {u.t.L[cur], u.t.R[cur]}
            /\ Depth(Mem, cur) # HANG
            /\ Depth(u.t, cur) = Depth(Mem, cur) - 1

\* C9 as stated: a usurpingFind(k) call made when k's node is the root, or
\* when its parent's priority exceeds its own, no longer moves the node.
C9_StopsUnderHigherParent ==
    \A k \in Key :
        LET cur == treapFind(Mem, k) IN
        (Found(Mem, k) /\ (P[cur] = NULL \/ heapKey[P[cur]] > heapKey[cur])) =>
            treapUsurpingFind(Mem, k).t = Mem

\* C9 as amended: a usurpingFind(k) call made when k's node is the root
\* changes nothing; a call made when the node has a parent exchanges the two
\* priorities and puts the node above that parent, whatever the priorities.
C9_StopsOnlyAtRoot ==
    \A k \in Key :
        LET cur == treapFind(Mem, k)
            u == treapUsurpingFind(Mem, k)
        IN  Found(Mem, k) =>
              /\ u.ret = cur
              /\ P[cur] = NULL => u.t = Mem
              /\ P[cur] # NULL =>
                   /\ u.t.P[P[cur]] = cur
                   /\ u.t.heapKey[cur] = heapKey[P[cur]]
                   /\ u.t.heapKey[P[cur]] = heapKey[cur]

\* C9 witness: usurpingFind has just lifted a node above a parent whose
\* priority exceeded the node's (the two priorities are exchanged now).
C9_Witness ==
    /\ last.op = "usurpingFind"
    /\ last.up # NULL
    /\ last.up # last.ret
    /\ P[last.up] = last.ret
    /\ heapKey[last.ret] > heapKey[last.up]

ScenDone == Len(L) = Len(ScenKeys) /\ heapKey = <<10, 30, 20, 5, 15>>

\* The node of the scenario that holds key k.
NodeOf(k) == CHOOSE n \in 1..Len(treeKey) : treeKey[n] = k

\* C10 as stated: with priorities 10, 30, 20, 5, 15 the root is node 3, the
\* nodes 5 and 8 are its children, the nodes 1 and 4 are below node 5, and
\* the in-order traversal is 1, 3, 4, 5, 8.
C10_Stated ==
    ScenDone =>
        /\ root = NodeOf(3)
        /\ L[NodeOf(3)] = NodeOf(5) \/ R[NodeOf(3)] = NodeOf(5)
        /\ L[NodeOf(3)] = NodeOf(8) \/ R[NodeOf(3)] = NodeOf(8)
        /\ {NodeOf(1), NodeOf(4)} \subseteq Under(Mem, NodeOf(5))
        /\ InOrder(Mem, root, Len(L)) = <<1, 3, 4, 5, 8>>

\* C10 as amended: with priorities 10, 30, 20, 5, 15 the root is node 3,
\* its children are node 1 (left) and node 8 (right), node 4 is the left
\* child of node 8, node 5 is the right child of node 4, nothing else is
\* linked, and the in-order traversal is 1, 3, 4, 5, 8.
C10_Scenario ==
    ScenDone =>
        /\ root = NodeOf(3) /\ P[NodeOf(3)] = NULL
        /\ L[NodeOf(3)] = NodeOf(1) /\ P[NodeOf(1)] = NodeOf(3)
        /\ R[NodeOf(3)] = NodeOf(8) /\ P[NodeOf(8)] = NodeOf(3)
        /\ L[NodeOf(8)] = NodeOf(4) /\ P[NodeOf(4)] = NodeOf(8)
        /\ R[NodeOf(4)] = NodeOf(5) /\ P[NodeOf(5)] = NodeOf(4)
        /\ L[NodeOf(1)] = NULL /\ R[NodeOf(1)] = NULL /\ R[NodeOf(8)] = NULL
        /\ L[NodeOf(4)] = NULL /\ L[NodeOf(5)] = NULL /\ R[NodeOf(5)] = NULL
        /\ InOrder(Mem, root, Len(L)) = <<1, 3, 4, 5, 8>>

\* C10 witness: the five keys are in with exactly the scenario's priorities.
C10_Witness == ScenDone /\ treeKey = ScenKeys /\ last.op = "insert"

\* How many allocated nodes carry priority v.
PrioCount(t, v) == Cardinality({n \in 1..Len(t.heapKey) : t.heapKey[n] = v})

\* C11: insert and decouple leave the heapKey of every node that existed
\* before the call as it was; usurpingFind on a found node with a parent
\* exchanges the heapKeys of the node and its parent, changes no other
\* heapKey and keeps the multiset of priorities; no call changes a treeKey.
C11_PrioritiesFixed ==
    /\ \A k \in Key, hk \in Prio :
         LET a == treapAppend(Mem, k, hk) IN
         a.ret # HANG =>
             \A n \in 1..Len(L) : /\ a.t.heapKey[n] = heapKey[n]
                                  /\ a.t.treeKey[n] = treeKey[n]
    /\ \A n \in Members(Mem) :
         LET d == treapDecouple(Mem, n) IN
         d.ret # HANG => d.t.heapKey = heapKey /\ d.t.treeKey = treeKey
    /\ \A k \in Key :
         LET cur == treapFind(Mem, k)
             u == treapUsurpingFind(Mem, k)
         IN  Found(Mem, k) =>
               /\ u.t.treeKey = treeKey
               /\ P[cur] = NULL => u.t.heapKey = heapKey
               /\ P[cur] # NULL =>
                    /\ u.t.heapKey[cur] = heapKey[P[cur]]
                    /\ u.t.heapKey[P[cur]] = heapKey[cur]
                    /\ \A n \in 1..Len(L) \ {cur, P[cur]} :
                           u.t.heapKey[n] = heapKey[n]
                    /\ \A v \in Prio : PrioCount(u.t, v) = PrioCount(Mem, v)

\* C11 witness: usurpingFind has just exchanged two different priorities.
C11_Witness ==
    /\ last.op = "usurpingFind"
    /\ last.up # NULL
    /\ last.up # last.ret
    /\ heapKey[last.ret] # heapKey[last.up]

\* The invariants a treap with distinct keys satisfies, heap order aside.
Intact(t) == Unique(t) /\ SearchOrder(t) /\ BackLinks(t)

KeysOf(t) == {t.treeKey[n] : n \in Members(t)}

Without(seq, k) == LET Keep(x) == x # k IN SelectSeq(seq, Keep)

Ascending(seq) == \A i \in 1..(Len(seq) - 1) : seq[i] < seq[i + 1]

\* C12: on a treap with distinct keys and the invariants intact, decouple(n)
\* takes exactly n out: the members are the former members without n, the
\* in-order key sequence is the former one without n's key and ascending,
\* neither the root slot nor any remaining node's L, R or P refers to n,
\* and the treap is empty if n was its only node.
C12_DecoupleRemoves ==
    \A n \in Members(Mem) :
        LET d == treapDecouple(Mem, n) IN
        (Intact(Mem) /\ HeapOrder(Mem)) =>
        /\ d.ret # HANG
        /\ Members(d.t) = Members(Mem) \ {n}
        /\ KeysOf(d.t) = KeysOf(Mem) \ {treeKey[n]}
        /\ InOrder(d.t, d.t.root, Len(L))
             = Without(InOrder(Mem, root, Len(L)), treeKey[n])
        /\ Ascending(InOrder(d.t, d.t.root, Len(L)))
        /\ d.t.root # n
        /\ \A m \in Members(d.t) :
               d.t.L[m] # n /\ d.t.R[m] # n /\ d.t.P[m] # n
        /\ Members(Mem) = {n} => d.t.root = NULL

\* C12 witness: decouple has just spliced out a node that had a parent and
\* a child at that moment, and other nodes remain.
C12_Witness ==
    /\ last.op = "decouple"
    /\ last.node \notin Members(Mem)
    /\ P[last.node] # NULL
    /\ L[last.node] # NULL \/ R[last.node] # NULL
    /\ Cardinality(Members(Mem)) >= 2

\* The memories decouple goes through: after each rotation of lines 162-170.
RECURSIVE RotateDownSteps(_, _, _)
RotateDownSteps(t, node, seen) ==
    IF t.L[node] = NULL \/ t.R[node] = NULL THEN {}
    ELSE IF t \in seen THEN {}
    ELSE LET t1 == treapRotate(t, node, DownChild(t, node))
         IN  {t1} \cup RotateDownSteps(t1, node, seen \cup {t})

\* Heap order between every parent and child, the links to node left aside.
HeapOrderBut(t, node) ==
    \A n \in Members(t) \ {node} :
        /\ (t.L[n] # NULL /\ t.L[n] # node) => t.heapKey[n] >= t.heapKey[t.L[n]]
        /\ (t.R[n] # NULL /\ t.R[n] # node) => t.heapKey[n] >= t.heapKey[t.R[n]]

\* C13 as stated: on a treap in heap order, heap order holds over the whole
\* tree after every rotation of decouple's loop and after the splice.
C13_HeapOrderAtEveryStep ==
    \A n \in Members(Mem) :
        HeapOrder(Mem) =>
            /\ \A s \in RotateDownSteps(Mem, n, {}) : HeapOrder(s)
            /\ HeapOrder(treapDecouple(Mem, n).t)

\* C13 as amended: on a treap with distinct keys that satisfies the
\* invariants, after every rotation of decouple's loop heap order holds
\* between all nodes other than the node being removed, that node is still
\* >= its own children, and heap order holds over the whole remaining tree
\* after the splice.
C13_HeapOrderAmongTheRest ==
    \A n \in Members(Mem) :
        (Intact(Mem) /\ HeapOrder(Mem)) =>
            /\ \A s \in RotateDownSteps(Mem, n, {}) :
                   /\ HeapOrderBut(s, n)
                   /\ s.L[n] # NULL => s.heapKey[n] >= s.heapKey[s.L[n]]
                   /\ s.R[n] # NULL => s.heapKey[n] >= s.heapKey[s.R[n]]
            /\ HeapOrder(treapDecouple(Mem, n).t)

\* C13 witness: a member with two children, in a treap in heap order, whose
\* removal takes two rotations, lifts a child of lower priority above it on
\* the way, and leaves the rest in heap order.
C13_Witness ==
    /\ HeapOrder(Mem)
    /\ \E n \in Members(Mem) :
           /\ L[n] # NULL /\ R[n] # NULL
           /\ Cardinality(RotateDownSteps(Mem, n, {})) >= 1
           /\ \E s \in RotateDownSteps(Mem, n, {}) : ~HeapOrder(s)
           /\ HeapOrder(treapDecouple(Mem, n).t)

\* The boundary slot that refers to node r: the root slot or a slot of P[r].
SlotOf(t, r) ==
    IF t.P[r] = NULL THEN <<"root", NULL>>
    ELSE IF t.L[t.P[r]] = r THEN <<"L", t.P[r]>>
    ELSE <<"R", t.P[r]>>

Load(t, slot) ==
    IF slot[1] = "root" THEN t.root
    ELSE IF slot[1] = "L" THEN t.L[slot[2]]
    ELSE t.R[slot[2]]

ChildrenOf(t, r) == {t.L[r], t.R[r]} \ {NULL}

\* C14: on a treap with distinct keys, search order and consistent
\* back-links, rotate(r, p) for a child p of r puts p into r's former slot
\* with r's former parent, makes r the right child of a former left child p
\* (the left child of a former right child), hangs p's former inner subtree
\* on r on the side p came from, and keeps the set of nodes, the in-order
\* key sequence and the consistency of the back-links.
C14_RotatePromotes ==
    \A r \in Members(Mem) : \A p \in ChildrenOf(Mem, r) :
        Intact(Mem) =>
            LET t == treapRotate(Mem, r, p)
                slot == SlotOf(Mem, r)
            IN  /\ Load(t, slot) = p
                /\ t.P[p] = P[r]
                /\ t.P[r] = p
                /\ p = L[r] => /\ t.R[p] = r /\ t.L[r] = R[p]
                               /\ t.L[p] = L[p] /\ t.R[r] = R[r]
                /\ p = R[r] => /\ t.L[p] = r /\ t.R[r] = L[p]
                               /\ t.R[p] = R[p] /\ t.L[r] = L[r]
                /\ Members(t) = Members(Mem)
                /\ InOrder(t, t.root, Len(L)) = InOrder(Mem, root, Len(L))
                /\ BackLinks(t)

\* C14 witness: a node with a parent and a child that has an inner subtree,
\* so that the rotation rewrites the grandparent's slot and moves a subtree.
C14_Witness ==
    /\ Intact(Mem)
    /\ \E r \in Members(Mem) :
           /\ P[r] # NULL
           /\ L[r] # NULL /\ R[L[r]] # NULL
           /\ BackLinks(treapRotate(Mem, r, L[r]))

\* The node insert's descent ends at (NULL on the empty treap), line 118-124.
LastVisited(t, key) ==
    IF t.root = NULL THEN NULL ELSE AppendWalk(t, t.root, key, Len(t.L))

\* C15: on a treap satisfying the invariants, insert(k) of an absent key
\* links one new node holding k with both children absent under the last
\* node of the descent (as root on the empty treap) and returns it; the
\* node is rotated above its parent only while its priority is strictly
\* greater, so with a priority equal to (or below) the parent's it stays
\* where it was linked; afterwards the keys are the old keys plus k and the
\* search-order, heap-order and back-link invariants hold.
C15_InsertAbsent ==
    (Intact(Mem) /\ HeapOrder(Mem)) =>
        \A k \in KeyD, hk \in PrioD :
            ~Holds(Mem, k) =>
            LET a == treapAppend(Mem, k, hk)
                new == Len(L) + 1
                par == LastVisited(Mem, k)
                linked == LinkNew(Mem, par, k, hk)
            IN  /\ a.ret = new
                /\ Len(a.t.L) = new
                /\ a.t.treeKey[new] = k /\ a.t.heapKey[new] = hk
                /\ linked.L[new] = NULL /\ linked.R[new] = NULL
                /\ linked.P[new] = par
                /\ par = NULL => linked.root = new
                /\ par # NULL => new \in ChildrenOf(linked, par)
                /\ (par # NULL /\ hk <= heapKey[par]) => a.t = linked
                /\ (par # NULL /\ hk > heapKey[par]) => a.t.P[new] # par
                /\ a.t.P[new] # NULL => a.t.heapKey[a.t.P[new]] >= hk
                /\ Members(a.t) = Members(Mem) \cup {new}
                /\ KeysOf(a.t) = KeysOf(Mem) \cup {k}
                /\ Intact(a.t) /\ HeapOrder(a.t)

\* C15 witness: insert has just linked a new node under a parent of the
\* same priority and left it there as a leaf.
C15_Witness ==
    /\ last.op = "insert"
    /\ last.ret = Len(L)
    /\ P[last.ret] # NULL
    /\ heapKey[P[last.ret]] = heapKey[last.ret]
    /\ L[last.ret] = NULL /\ R[last.ret] = NULL

\* What rotate may write outside r and p according to both readings: keys
\* and priorities stay, the root slot changes only if r had no parent, and
\* of the other nodes only r's parent changes, in one child slot.
RotateFrame(t0, t, r, p) ==
    /\ t.treeKey = t0.treeKey /\ t.heapKey = t0.heapKey
    /\ t0.P[r] # NULL => t.root = t0.root
    /\ \A n \in 1..Len(t0.L) \ {r, p} :
           /\ n # t0.P[r] => t.L[n] = t0.L[n] /\ t.R[n] = t0.R[n]
           /\ n = t0.P[r] => t.L[n] = t0.L[n] \/ t.R[n] = t0.R[n]

\* C16 as stated: rotate(r, p) writes pointer fields of r and p and the one
\* boundary pointer that referred to r, and no field of any other node.
C16_OnlyTwoNodes ==
    \A r \in Members(Mem) : \A p \in ChildrenOf(Mem, r) :
        LET t == treapRotate(Mem, r, p) IN
        /\ RotateFrame(Mem, t, r, p)
        /\ \A n \in 1..Len(L) \ {r, p} : t.P[n] = P[n]

\* C16 as amended: rotate(r, p) writes pointer fields of r and p, the one
\* boundary pointer that referred to r, and the parent pointer of the child
\* of p that it hands to r, if there is one (it becomes r); no other field
\* of any other node and no key or priority.
C16_TwoNodesAndInnerChild ==
    \A r \in Members(Mem) : \A p \in ChildrenOf(Mem, r) :
        LET t == treapRotate(Mem, r, p) IN
        /\ RotateFrame(Mem, t, r, p)
        /\ \A n \in 1..Len(L) \ {r, p} :
               t.P[n] # P[n] => n \in ChildrenOf(Mem, p) /\ t.P[n] = r

\* C16 witness: usurpingFind has just rotated a left child above its
\* parent and the child's former right subtree now hangs on that parent.
C16_Witness ==
    /\ last.op = "usurpingFind"
    /\ last.up # NULL
    /\ last.up # last.ret
    /\ treeKey[last.ret] < treeKey[last.up]
    /\ R[last.ret] = last.up
    /\ L[last.up] # NULL
    /\ P[L[last.up]] = last.up

\* C17: on a treap with distinct keys, search order and consistent
\* back-links every call returns: find's descent, insert's descent and
\* bubble-up loop, usurpingFind, and decouple's rotation loop all end; the
\* bubble-up loop has ended when the new node has no parent or a parent of
\* at least its priority, decouple's loop when the node has at most one
\* child.
C17_Terminates ==
    Intact(Mem) =>
        /\ \A k \in KeyD :
               /\ treapFind(Mem, k) # HANG
               /\ treapUsurpingFind(Mem, k).ret # HANG
               /\ \A hk \in PrioD :
                      LET a == treapAppend(Mem, k, hk) IN
                      /\ a.ret # HANG
                      /\ a.ret = Len(L) + 1 => ~Climbs(a.t, a.ret)
        /\ \A n \in Members(Mem) :
               LET d == RotateDown(Mem, n, {}) IN
               /\ d.ret # HANG
               /\ d.t.L[n] = NULL \/ d.t.R[n] = NULL
               /\ treapDecouple(Mem, n).ret # HANG

\* C17 witness: a treap on which an insert has to rotate the new node up
\* twice and a decouple has to rotate its node down, and both return.
C17_Witness ==
    /\ Intact(Mem)
    /\ \E k \in KeyD, hk \in PrioD :
           LET par == LastVisited(Mem, k) IN
           /\ ~Holds(Mem, k)
           /\ par # NULL /\ P[par] # NULL
           /\ hk > heapKey[par] /\ hk > heapKey[P[par]]
           /\ treapAppend(Mem, k, hk).ret = Len(L) + 1
    /\ \E n \in Members(Mem) :
           /\ Cardinality(RotateDownSteps(Mem, n, {})) >= 1
           /\ treapDecouple(Mem, n).ret = NULL

\* C18: a find call changes neither the root slot nor any field of any
\* node; usurpingFind(k) returns NULL and changes nothing when no node is
\* found, and returns the found node and changes nothing when that node is
\* the root (has no parent).
C18_LookupsLeaveTreap ==
    [][ /\ \A k \in Key :
               LET cur == treapFind(Mem, k)
                   u == treapUsurpingFind(Mem, k)
               IN  /\ cur = NULL => u = [t |-> Mem, ret |-> NULL]
                   /\ (Found(Mem, k) /\ P[cur] = NULL) =>
                          u = [t |-> Mem, ret |-> cur]
        /\ last'.op = "find" =>
               UNCHANGED <<root, L, R, P, treeKey, heapKey>>
      ]_vars

\* C18 witness: usurpingFind has just found the root of a treap of several
\* nodes and returned it.
C18_Witness ==
    /\ last.op = "usurpingFind"
    /\ last.ret # NULL
    /\ last.ret = root
    /\ last.up = NULL
    /\ L[root] # NULL \/ R[root] # NULL

\* The canonical treap of a set S of nodes with pairwise distinct
\* priorities: its top is the node of highest priority, its left subtree
\* the canonical treap of the nodes of S with smaller keys, its right
\* subtree that of the nodes with larger keys.
Top(t, S) ==
    IF S = {} THEN NULL
    ELSE CHOOSE n \in S : \A m \in S : t.heapKey[m] <= t.heapKey[n]

RECURSIVE Shaped(_, _, _, _)
Shaped(t, S, par, slot) ==
    /\ slot = Top(t, S)
    /\ S # {} =>
           /\ t.P[slot] = par
           /\ Shaped(t, {m \in S : t.treeKey[m] < t.treeKey[slot]},
                     slot, t.L[slot])
           /\ Shaped(t, {m \in S : t.treeKey[m] > t.treeKey[slot]},
                     slot, t.R[slot])

DistinctPrios(t, S) ==
    \A m, n \in S : m # n => t.heapKey[m] # t.heapKey[n]

\* C19: after inserts of distinct keys and decouples of member nodes, when
\* the priorities present are pairwise distinct, the treap is the canonical
\* one of its (key, priority) pairs: the root has the highest priority and
\* each subtree is the canonical treap of the smaller / larger keys.  And
\* inserting an absent key with a fresh priority, then decoupling the
\* returned node, gives every remaining node and the root slot the links
\* they had before.
C19_CanonicalShape ==
    DistinctPrios(Mem, Members(Mem)) =>
        /\ Shaped(Mem, Members(Mem), NULL, root)
        /\ \A k \in KeyD, hk \in PrioD :
               (/\ ~Holds(Mem, k)
                /\ \A m \in Members(Mem) : heapKey[m] # hk) =>
                   LET a == treapAppend(Mem, k, hk)
                       d == treapDecouple(a.t, a.ret)
                   IN  /\ a.ret = Len(L) + 1
                       /\ Shaped(a.t, Members(Mem) \cup {a.ret}, NULL, a.t.root)
                       /\ d.ret # HANG
                       /\ d.t.root = root
                       /\ \A n \in Members(Mem) :
                              /\ d.t.L[n] = L[n]
                              /\ d.t.R[n] = R[n]
                              /\ d.t.P[n] = P[n]

\* C19 witness: a decouple has left at least two members with distinct
\* priorities, and some absent key with a fresh priority would climb to
\* the root when inserted.
C19_Witness ==
    /\ last.op = "decouple"
    /\ Cardinality(Members(Mem)) >= 2
    /\ DistinctPrios(Mem, Members(Mem))
    /\ \E k \in KeyD, hk \in PrioD :
           /\ ~Holds(Mem, k)
           /\ \A m \in Members(Mem) : heapKey[m] # hk
           /\ treapAppend(Mem, k, hk).t.root = Len(L) + 1

\* C20: when key k is held by a member node n that has no right child,
\* insert(k) returns n, allocates no node and leaves the treap unchanged.
C20_DuplicateAtDescentEnd ==
    \A k \in Key, hk \in Prio :
        \A n \in Members(Mem) :
            (treeKey[n] = k /\ R[n] = NULL) =>
                treapAppend(Mem, k, hk) = [t |-> Mem, ret |-> n]

====
